---------------------------- MODULE Spec2Model ----------------------------
(***************************************************************************)
(* A model of jssg: rule matching, the two-phase build, and its helpers.   *)
(*                                                                         *)
(*   - the matcher of jssg/build_env.py (_first_matching_rule,             *)
(*     _match_single_rule) and of jssg/__init__.py (first_matching_rule);  *)
(*   - build() of jssg/build_env.py: lazily match and evaluate every file, *)
(*     unpack the results, notify the listeners, run the executions;       *)
(*   - BuildEnv.build() of jssg/__init__.py: translate every file to an    *)
(*     execution (notifying listeners on the way), then flush_execution;   *)
(*   - the path maps of jssg/pathmap.py and jssg/__init__.py;              *)
(*   - the file-map dispatch of FileMapper.execute (jssg/__init__.py) and  *)
(*     of FileMapExecutionRule (jssg/execution_rule.py);                   *)
(*   - PageCollection of jssg.py;                                          *)
(*   - the Jinja execution rules of jssg/jinja_utils.py.                   *)
(*                                                                         *)
(* Each part has its own specification over the same variables; the parts  *)
(* a specification does not run stay idle.                                 *)
(*                                                                         *)
(* Strings that the code takes apart (paths, globs) are tuples of          *)
(* one-character strings.  Python's None is the empty tuple.               *)
(***************************************************************************)
EXTENDS Integers, Sequences, FiniteSets, TLC

VARIABLES
    impl,          \* which build() runs: "build_env" or "BuildEnv"
    rules,         \* the rule table: a tuple of <<pattern, result>> pairs
    files,         \* the file list handed to build()
    listeners,     \* the listeners dict, in insertion order
    pc,            \* position of build(): collect, notify, flush, execute, done, raised
    fi,            \* index of the next file the file loop takes
    dat,           \* build_env: the (inf, outf, data) triples yielded so far
    executions,    \* the executions yielded / BuildEnv.execution_sequence
    collected,     \* per listener: the triples its on_data_return has received
    exec_state,    \* the dict handed to every execution
    xi,            \* index of the next execution the execute loop takes
    err,           \* the exception build() ended with, "" if none
    log,           \* history: every callback invocation, in order
    mpc,           \* matcher calls: "idle" outside them, else "ready"/"returned"
    mpath,         \* matcher calls: the path argument
    mdefault,      \* matcher calls: the default argument
    mresult,       \* matcher calls: what first_matching_rule returned
    mpat,          \* matcher calls: the pattern given to _match_single_rule
    mhit,          \* matcher calls: what _match_single_rule returned
    ppc,           \* path-map calls: "idle" outside them, else "ready"/"returned"
    pfn,           \* path-map calls: the path argument fn
    psuff,         \* path-map calls: the suff argument
    pcall,         \* path-map calls: the function that was called
    presult,       \* path-map calls: what it returned, or the error it raised
    fimpl,         \* file maps: "FileMapper" or "FileMapExecutionRule"
    ff,            \* file maps: the transform f (op, self.callable)
    finf,          \* file maps: the input name (inpath, inf)
    foutf,         \* file maps: the output name (outpath, outf)
    fpc,           \* file maps: idle, ready, deferred, done
    fstate,        \* file maps: the state FileMapExecutionRule returned
    flog,          \* file maps: calls of f and of the file system, in order
    ferr,          \* file maps: the exception the action ended with, "" if none
    pages,         \* PageCollection.pages
    keys,          \* PageCollection.keys
    pushed,        \* history: the records stored so far, in push order
    pgcall,        \* PageCollection: the method called last, "" before any
    pgarg,         \* PageCollection: its argument: << record >> or a count
    pgresult,      \* PageCollection: what the call yielded
    pgerr,         \* PageCollection: the exception it raised, "" if none
    jrule,         \* Jinja rules: "JinjaFile" or "JinjaLayoutFile" (as_layout)
    jtemplate,     \* Jinja rules: the template the input file holds
    jimm,          \* Jinja rules: the immediate context providers of self.ctx
    jinf,          \* Jinja rules: the input name
    joutf,         \* Jinja rules: the output name
    jpc,           \* Jinja rules: idle, ready, deferred, done, raised
    jstate,        \* Jinja rules: the state the rule returned
    jlog,          \* Jinja rules: the calls of the file system, in order
    jerr,          \* Jinja rules: the exception raised, "" if none
    jrc,           \* Jinja rules: the render_context of self.ctx
    jn,            \* Jinja rules: the number of the file at hand, from 1
    jqueue,        \* Jinja rules: the deferred actions not yet run
    jfiles,        \* history: the (inf, outf) the rule was called with
    jcalls,        \* history: the calls of the immediate context providers
    jrenders,      \* history: per render, the file and the dict rendered
    bno,           \* BuildEnv: the number of the build() call, from 1
    carried,       \* history: self.execution_sequence when this call began
    builtin,       \* built-in rules: the content transform the rules name
    fslog          \* history: the calls of the file system during build()

pathVars == <<ppc, pfn, psuff, pcall, presult>>

fileMapVars == <<fimpl, ff, finf, foutf, fpc, fstate, flog, ferr>>

pageVars == <<pages, keys, pushed, pgcall, pgarg, pgresult, pgerr>>

jinjaVars == <<jrule, jtemplate, jimm, jinf, joutf, jpc, jstate, jlog, jerr,
               jrc, jn, jqueue, jfiles, jcalls, jrenders>>

rebuildVars == <<bno, carried>>

builtinVars == <<builtin, fslog>>

toolVars == <<pathVars, fileMapVars, pageVars, jinjaVars, rebuildVars,
              builtinVars>>

vars == <<impl, rules, files, listeners, pc, fi, dat, executions, collected,
          exec_state, xi, err, log, mpc, mpath, mdefault, mresult, mpat, mhit,
          toolVars>>

buildVars == <<impl, files, listeners, pc, fi, dat, executions, collected,
               exec_state, xi, err, log>>

matchVars == <<mpc, mpath, mdefault, mresult, mpat, mhit>>

---------------------------------------------------------------------------
(* Bounds of the model. *)

MaxRules == 2
MaxFiles == 2

---------------------------------------------------------------------------
(* Values. *)

None == <<>>

\* A glob string, and a tuple of patterns (a group).
Str(chars) == <<"str", chars>>
Group(members) == <<"seq", members>>
IsStr(rule) == rule[1] = "str"

\* Paths: "x.t", "a/x.y", "b/x.y", "b/x.z", "r".
Paths ==
    { <<"x", ".", "t">>,
      <<"a", "/", "x", ".", "y">>,
      <<"b", "/", "x", ".", "y">>,
      <<"b", "/", "x", ".", "z">>,
      <<"r">> }

\* Patterns: "*.t", "a/*.y", ("*.y", "*.z"), ("*.z", "?.t"), ().
Patterns ==
    { Str(<<"*", ".", "t">>),
      Str(<<"a", "/", "*", ".", "y">>),
      Group(<< Str(<<"*", ".", "y">>), Str(<<"*", ".", "z">>) >>),
      Group(<< Str(<<"*", ".", "z">>), Str(<<"?", ".", "t">>) >>),
      Group(<< >>) }

\* Rule results: the skip marker None, or a (path map, execution rule) pair.
RuleA == <<"mirror_path", "rule_a">>
RuleB == <<"mirror_path", "rule_b">>
Results == {None, RuleA, RuleB}

\* A default other than None that a caller may pass to the matcher.
NoRule == <<"no rule">>

---------------------------------------------------------------------------
(* The matcher. *)

\* fnmatch.fnmatch(name, pat) for globs built from literals, "*" and "?":
\* the whole name must match, and "*" also matches "/".
RECURSIVE FnMatch(_, _)
FnMatch(name, pat) ==
    IF pat = <<>> THEN name = <<>>
    ELSE IF Head(pat) = "*"
         THEN FnMatch(name, Tail(pat))
              \/ (name # <<>> /\ FnMatch(Tail(name), pat))
    ELSE IF Head(pat) = "?"
         THEN name # <<>> /\ FnMatch(Tail(name), Tail(pat))
    ELSE name # <<>> /\ Head(name) = Head(pat)
         /\ FnMatch(Tail(name), Tail(pat))

RECURSIVE MatchSingleRule(_, _)
RECURSIVE MatchMembers(_, _, _)

\* The loop "for r in rule" of _match_single_rule, from member k on.
MatchMembers(members, k, path) ==
    IF k > Len(members) THEN FALSE
    ELSE IF MatchSingleRule(members[k], path) THEN TRUE
    ELSE MatchMembers(members, k + 1, path)

\* A plausible slip: the loop returns the first member's answer.
MatchSingleRuleFirstOnly(rule, path) ==
    IF IsStr(rule) THEN FnMatch(path, rule[2])
    ELSE Len(rule[2]) > 0 /\ IsStr(rule[2][1]) /\ FnMatch(path, rule[2][1][2])

MatchSingleRule(rule, path) ==
    IF IsStr(rule) THEN FnMatch(path, rule[2])
    ELSE MatchMembers(rule[2], 1, path)

\* A plausible slip: the loop keeps going and the last match wins.
RECURSIVE LastMatchingRule(_, _, _, _)
LastMatchingRule(rs, k, path, found) ==
    IF k > Len(rs) THEN found
    ELSE IF MatchSingleRule(rs[k][1], path)
         THEN LastMatchingRule(rs, k + 1, path, rs[k][2])
    ELSE LastMatchingRule(rs, k + 1, path, found)

FirstMatchingRuleLastWins(rs, path, default) ==
    LastMatchingRule(rs, 1, path, default)

\* A plausible slip: a None result does not end the search.
RECURSIVE FirstNonSkipRule(_, _, _, _)
FirstNonSkipRule(rs, k, path, default) ==
    IF k > Len(rs) THEN default
    ELSE IF MatchSingleRule(rs[k][1], path) /\ rs[k][2] # None THEN rs[k][2]
    ELSE FirstNonSkipRule(rs, k + 1, path, default)

FirstMatchingRuleSkipsNone(rs, path, default) ==
    FirstNonSkipRule(rs, 1, path, default)

\* A plausible slip: the default argument is ignored.
RECURSIVE FirstMatchOrNone(_, _, _)
FirstMatchOrNone(rs, k, path) ==
    IF k > Len(rs) THEN None
    ELSE IF MatchSingleRule(rs[k][1], path) THEN rs[k][2]
    ELSE FirstMatchOrNone(rs, k + 1, path)

FirstMatchingRuleNoDefault(rs, path, default) ==
    FirstMatchOrNone(rs, 1, path)

\* The loop "for (rule, result) in rules" of _first_matching_rule, from k on.
RECURSIVE RuleLoop(_, _, _, _)
RuleLoop(rs, k, path, default) ==
    IF k > Len(rs) THEN default
    ELSE IF MatchSingleRule(rs[k][1], path) THEN rs[k][2]
    ELSE RuleLoop(rs, k + 1, path, default)

FirstMatchingRule(rs, path, default) ==
    RuleLoop(rs, 1, path, default)

---------------------------------------------------------------------------
(* Path maps, execution rules and listeners. *)

\* The source and build directories BuildEnv was constructed with.
Indir == <<"s">>
Outdir == <<"o">>

\* pathlib.Path(directory, name).as_posix() for a relative name.
JoinPath(directory, name) == directory \o <<"/">> \o name

\* pm(f) for the path maps the rule tables use.
ApplyPathMap(pm, f) ==
    CASE pm = "mirror_path" -> f

\* The (inf, outf) a file's execution rule is called with.  build_env._execute_rule
\* passes the relative names; BuildEnv.translate_to_execution passes what
\* execute_path_map returns for a one-argument path map: the names joined to
\* indir and outdir.
InName(im, f) ==
    IF im = "build_env" THEN f ELSE JoinPath(Indir, f)

OutName(im, pm, f) ==
    IF im = "build_env" THEN ApplyPathMap(pm, f)
    ELSE JoinPath(Outdir, ApplyPathMap(pm, f))

\* What a call of a user's execution rule can do: return (execution, data)
\* with data a record, return (execution, None), or raise.
Outcomes == {"data", "none", "raise"}

DataOf(outcome, inf) ==
    IF outcome = "data" THEN [type |-> "page", title |-> inf] ELSE None

\* What a call of an execution (the deferred action) can do: return, or raise.
ExecutionResults == {"ok", "raise"}

\* One yielded element of _lazy_evaluate_rules: the (f, outf, data) triple;
\* i is the file's position in the file list.
Input(i, inf, outf, data) == [i |-> i, inf |-> inf, outf |-> outf, data |-> data]

Triple(in) == <<in.inf, in.outf, in.data>>

\* The listeners: hasattr(l, 'on_data_return'), hasattr(l, 'before_execute').
Listener(name, odr, be) == [name |-> name, on_data_return |-> odr, before_execute |-> be]

\* The listener dicts a build is given: none, or an aggregator with both hooks,
\* an observer with on_data_return only, a provider with before_execute only
\* and an object with neither hook.
ListenerConfigs ==
    { << >>,
      << Listener("pages", TRUE, TRUE), Listener("seen", TRUE, FALSE),
         Listener("site", FALSE, TRUE), Listener("misc", FALSE, FALSE) >> }

\* History records: the call op, the position i of the file it is for, the
\* listener or rule l it goes to, and its arguments.  A "rule" and an
\* "execution" record also hold how the call ended.
Ev(op, i, l, arg) == [op |-> op, i |-> i, l |-> l, arg |-> arg]

\* Plausible slips: the test is missing, or inverted.
NotifiesAlways(data) == TRUE
NotifiesNone(data) == data = None

\* "if dat is not None" of _notify_listeners and translate_to_execution.

Notifies(data) == data # None

\* The calls "for l in listeners.values(): if hasattr(l, 'on_data_return'):
\* l.on_data_return(inf, outf, dat)" for one triple, from listener j on.
RECURSIVE ListenerCalls(_, _, _)
ListenerCalls(ls, j, in) ==
    IF j > Len(ls) THEN << >>
    ELSE (IF ls[j].on_data_return
          THEN << Ev("on_data_return", in.i, ls[j].name, Triple(in)) >>
          ELSE << >>)
         \o ListenerCalls(ls, j + 1, in)

\* The loop "for (inf, outf, dat) in inputs" of _notify_listeners, from k on.
RECURSIVE DataReturnCalls(_, _, _)
DataReturnCalls(inputs, k, ls) ==
    IF k > Len(inputs) THEN << >>
    ELSE (IF Notifies(inputs[k].data) THEN ListenerCalls(ls, 1, inputs[k]) ELSE << >>)
         \o DataReturnCalls(inputs, k + 1, ls)

\* A listener's collection after it received the calls: an aggregator
\* appends every triple it is given.
RECURSIVE Receive(_, _, _)
Receive(coll, name, calls) ==
    IF calls = << >> THEN coll
    ELSE Receive(IF Head(calls).l = name THEN Append(coll, Head(calls).arg) ELSE coll,
                 name, Tail(calls))

ReceiveAll(colls, ls, calls) ==
    [j \in DOMAIN ls |-> Receive(colls[j], ls[j].name, calls)]

\* The calls "for name, l in listeners.items(): if hasattr(l, 'before_execute')".
RECURSIVE BeforeExecuteCalls(_, _)
BeforeExecuteCalls(ls, j) ==
    IF j > Len(ls) THEN << >>
    ELSE (IF ls[j].before_execute THEN << Ev("before_execute", 0, ls[j].name, << >>) >>
          ELSE << >>)
         \o BeforeExecuteCalls(ls, j + 1)

\* A plausible slip: every listener gets an entry, hook or not.
ExecStateOfAll(ls, colls) ==
    [n \in {ls[j].name : j \in DOMAIN ls} |->
        colls[CHOOSE j \in DOMAIN ls : ls[j].name = n]]

\* exec_state[name] = l.before_execute(): before_execute returns the
\* listener's collection.
ExecStateOf(ls, colls) ==
    [n \in {ls[j].name : j \in {k \in DOMAIN ls : ls[k].before_execute}} |->
        colls[CHOOSE j \in DOMAIN ls : ls[j].name = n]]

EmptyDict == [n \in {} |-> << >>]

---------------------------------------------------------------------------
(* build() of jssg/build_env.py. *)

\* The rule tables and file lists a build is given: files "x.t", "a/x.y" and
\* "r" under the patterns "*.t" and ("*.y", "*.t").
BuildPaths ==
    { <<"x", ".", "t">>, <<"a", "/", "x", ".", "y">>, <<"r">> }

BuildPatterns ==
    { Str(<<"*", ".", "t">>),
      Group(<< Str(<<"*", ".", "y">>), Str(<<"*", ".", "t">>) >>) }

BuildResults == {None, RuleA}

BuildRuleTables ==
    UNION { [1..n -> BuildPatterns \X BuildResults] : n \in 0..MaxRules }
FileLists == UNION { [1..n -> BuildPaths] : n \in 0..MaxFiles }

\* The rule build() looks up for the file the loop is at.
CurrentRule == FirstMatchingRule(rules, files[fi], None)

\* A plausible slip: the listeners are never notified.
AfterEvaluateNoNotify(ls) == "execute"

\* evaluate_rules: "if listeners: exec_state = _notify_listeners(dat, listeners)".
AfterEvaluate(ls) == IF ls # << >> THEN "notify" ELSE "execute"

\* A plausible slip: the executions run last to first.
NextExecutionReversed(execs, k) == execs[Len(execs) + 1 - k]

\* "for ex in executions": the k-th execution the loop takes.
NextExecution(execs, k) == execs[k]

\* _execute_rule: "if rule is None: return None", and _lazy_evaluate_rules:
\* "if result is None: continue".
EvaluateSkip ==
    /\ impl = "build_env" /\ pc = "collect" /\ fi <= Len(files)
    /\ CurrentRule = None
    /\ fi' = fi + 1
    /\ UNCHANGED <<impl, rules, files, listeners, pc, dat, executions, collected,
                   exec_state, xi, err, log>>
    /\ UNCHANGED matchVars
    /\ UNCHANGED toolVars

\* _execute_rule on a matched file: outf = pm(f), then rule(fs, f, outf);
\* _lazy_evaluate_rules yields ((f, outf, data), ex).
EvaluateRule(outcome) ==
    /\ impl = "build_env" /\ pc = "collect" /\ fi <= Len(files)
    /\ CurrentRule # None
    /\ LET f == files[fi]
           inf == InName(impl, f)
           outf == OutName(impl, CurrentRule[1], f)
       IN /\ log' = Append(log, Ev("rule", fi, CurrentRule[2], <<inf, outf, outcome>>))
          /\ IF outcome = "raise"
             THEN /\ pc' = "raised" /\ err' = "TransformError"
                  /\ UNCHANGED <<fi, dat, executions>>
             ELSE /\ dat' = Append(dat, Input(fi, inf, outf, DataOf(outcome, inf)))
                  /\ executions' = Append(executions, [i |-> fi])
                  /\ fi' = fi + 1
                  /\ UNCHANGED <<pc, err>>
    /\ UNCHANGED <<impl, rules, files, listeners, collected, exec_state, xi>>
    /\ UNCHANGED matchVars
    /\ UNCHANGED toolVars

\* evaluate_rules once the generator is exhausted:
\* "dat, executions = zip(*_lazy_evaluate_rules(...))" unpacks two tuples, and
\* raises ValueError when nothing was yielded (zip of no arguments is empty).
EvaluateRulesReturn ==
    /\ impl = "build_env" /\ pc = "collect" /\ fi > Len(files)
    /\ IF dat = << >>
       THEN pc' = "raised" /\ err' = "ValueError"
       ELSE pc' = AfterEvaluate(listeners) /\ err' = err
    /\ UNCHANGED <<impl, rules, files, listeners, fi, dat, executions, collected,
                   exec_state, xi, log>>
    /\ UNCHANGED matchVars
    /\ UNCHANGED toolVars

\* _notify_listeners(dat, listeners).
NotifyListeners ==
    /\ impl = "build_env" /\ pc = "notify"
    /\ LET calls == DataReturnCalls(dat, 1, listeners)
           colls == ReceiveAll(collected, listeners, calls)
       IN /\ log' = log \o calls \o BeforeExecuteCalls(listeners, 1)
          /\ collected' = colls
          /\ exec_state' = ExecStateOf(listeners, colls)
    /\ pc' = "execute"
    /\ UNCHANGED <<impl, rules, files, listeners, fi, dat, executions, xi, err>>
    /\ UNCHANGED matchVars
    /\ UNCHANGED toolVars

\* "for ex in executions: ex(exec_state)", one execution; the same loop is
\* in BuildEnv.flush_execution.  An execution that raises ends build() there:
\* nothing catches it, and flush_execution does not reach reset_state().
Execute(result) ==
    /\ pc = "execute" /\ xi <= Len(executions)
    /\ log' = Append(log, Ev("execution", NextExecution(executions, xi).i, "",
                             <<exec_state, result>>))
    /\ IF result = "raise"
       THEN pc' = "raised" /\ err' = "ExecutionError" /\ xi' = xi
       ELSE pc' = pc /\ err' = err /\ xi' = xi + 1
    /\ UNCHANGED <<impl, rules, files, listeners, fi, dat, executions, collected,
                   exec_state>>
    /\ UNCHANGED matchVars
    /\ UNCHANGED toolVars

\* build() returns after the last execution.
BuildReturn ==
    /\ impl = "build_env" /\ pc = "execute" /\ xi > Len(executions)
    /\ pc' = "done"
    /\ UNCHANGED <<impl, rules, files, listeners, fi, dat, executions, collected,
                   exec_state, xi, err, log>>
    /\ UNCHANGED matchVars
    /\ UNCHANGED toolVars

---------------------------------------------------------------------------
(* BuildEnv.build() of jssg/__init__.py. *)

\* translate_to_execution: "if rule is None: return".
TranslateSkip ==
    /\ impl = "BuildEnv" /\ pc = "collect" /\ fi <= Len(files)
    /\ CurrentRule = None
    /\ fi' = fi + 1
    /\ UNCHANGED <<impl, rules, files, listeners, pc, dat, executions, collected,
                   exec_state, xi, err, log>>
    /\ UNCHANGED matchVars
    /\ UNCHANGED toolVars

\* translate_to_execution on a matched file: the path map, the rule, the
\* listeners' on_data_return when data is not None, then add_execution.
TranslateToExecution(outcome) ==
    /\ impl = "BuildEnv" /\ pc = "collect" /\ fi <= Len(files)
    /\ CurrentRule # None
    /\ LET f == files[fi]
           inf == InName(impl, f)
           outf == OutName(impl, CurrentRule[1], f)
           rec == Input(fi, inf, outf, DataOf(outcome, inf))
           calls == IF Notifies(rec.data) THEN ListenerCalls(listeners, 1, rec)
                    ELSE << >>
           call == Ev("rule", fi, CurrentRule[2], <<inf, outf, outcome>>)
       IN IF outcome = "raise"
          THEN /\ log' = Append(log, call)
               /\ pc' = "raised" /\ err' = "TransformError"
               /\ UNCHANGED <<fi, executions, collected>>
          ELSE /\ log' = Append(log, call) \o calls
               /\ collected' = ReceiveAll(collected, listeners, calls)
               /\ executions' = Append(executions, [i |-> fi])
               /\ fi' = fi + 1
               /\ UNCHANGED <<pc, err>>
    /\ UNCHANGED <<impl, rules, files, listeners, dat, exec_state, xi>>
    /\ UNCHANGED matchVars
    /\ UNCHANGED toolVars

\* flush_execution, first loop: exec_state[name] = l.before_execute().
FlushExecution ==
    /\ impl = "BuildEnv" /\ pc = "collect" /\ fi > Len(files)
    /\ log' = log \o BeforeExecuteCalls(listeners, 1)
    /\ exec_state' = ExecStateOf(listeners, collected)
    /\ pc' = "execute"
    /\ UNCHANGED <<impl, rules, files, listeners, fi, dat, executions, collected,
                   xi, err>>
    /\ UNCHANGED matchVars
    /\ UNCHANGED toolVars

\* flush_execution after its second loop: reset_state(), and build() returns.
FlushReturn ==
    /\ impl = "BuildEnv" /\ pc = "execute" /\ xi > Len(executions)
    /\ executions' = << >>
    /\ xi' = 1
    /\ pc' = "done"
    /\ UNCHANGED <<impl, rules, files, listeners, fi, dat, collected, exec_state,
                   err, log>>
    /\ UNCHANGED matchVars
    /\ UNCHANGED toolVars

---------------------------------------------------------------------------
(* The state machine of one build() call. *)

MatchIdle ==
    /\ mpc = "idle" /\ mpath = << >> /\ mdefault = None /\ mresult = None
    /\ mpat = Group(<< >>) /\ mhit = FALSE

RebuildIdle == bno = 1 /\ carried = << >>

BuiltinIdle == builtin = "none" /\ fslog = << >>

PathIdle ==
    /\ ppc = "idle" /\ pfn = << >> /\ psuff = << >> /\ pcall = ""
    /\ presult = << >>

FileMapIdle ==
    /\ fimpl = "none" /\ ff = [accepts |-> {}, raises |-> ""]
    /\ finf = << >> /\ foutf = << >> /\ fpc = "idle" /\ fstate = None
    /\ flog = << >> /\ ferr = ""

PagesIdle ==
    /\ pages = << >> /\ keys = << >> /\ pushed = << >> /\ pgcall = ""
    /\ pgarg = None /\ pgresult = << >> /\ pgerr = ""

JinjaIdle ==
    /\ jrule = "none" /\ jtemplate = [content_layout |-> ""] /\ jimm = << >>
    /\ jinf = << >> /\ joutf = << >> /\ jpc = "idle" /\ jstate = None
    /\ jlog = << >> /\ jerr = "" /\ jrc = [my_var |-> "v"] /\ jn = 1
    /\ jqueue = << >> /\ jfiles = << >> /\ jcalls = << >> /\ jrenders = << >>

ToolsIdle ==
    /\ PathIdle
    /\ FileMapIdle
    /\ PagesIdle
    /\ JinjaIdle
    /\ RebuildIdle
    /\ BuiltinIdle

Init ==
    /\ impl \in {"build_env", "BuildEnv"}
    /\ rules \in BuildRuleTables
    /\ files \in FileLists
    /\ listeners \in ListenerConfigs
    /\ pc = "collect"
    /\ fi = 1
    /\ dat = << >>
    /\ executions = << >>
    /\ collected = [j \in DOMAIN listeners |-> << >>]
    /\ exec_state = EmptyDict
    /\ xi = 1
    /\ err = ""
    /\ log = << >>
    /\ MatchIdle
    /\ ToolsIdle

Next ==
    \/ EvaluateSkip
    \/ \E outcome \in Outcomes : EvaluateRule(outcome)
    \/ EvaluateRulesReturn
    \/ NotifyListeners
    \/ \E result \in ExecutionResults : Execute(result)
    \/ BuildReturn
    \/ TranslateSkip
    \/ \E outcome \in Outcomes : TranslateToExecution(outcome)
    \/ FlushExecution
    \/ FlushReturn

Spec == Init /\ [][Next]_vars

---------------------------------------------------------------------------
(* Calls of the matcher on its own: first_matching_rule(rules, path, default) *)
(* and _match_single_rule(rule, path).                                      *)

RuleTables == UNION { [1..n -> Patterns \X Results] : n \in 0..MaxRules }

BuildIdle ==
    /\ impl = "none" /\ files = << >> /\ listeners = << >> /\ pc = "idle"
    /\ fi = 1 /\ dat = << >> /\ executions = << >> /\ collected = << >>
    /\ exec_state = EmptyDict /\ xi = 1 /\ err = "" /\ log = << >>
    /\ RebuildIdle
    /\ BuiltinIdle

InitMatch ==
    /\ rules \in RuleTables
    /\ mpath \in Paths
    /\ mdefault \in {None, NoRule}
    /\ mpc = "ready"
    /\ mresult = None
    /\ mpat = None
    /\ mhit = FALSE
    /\ BuildIdle
    /\ ToolsIdle

CallFirstMatchingRule ==
    /\ mpc = "ready"
    /\ mresult' = FirstMatchingRule(rules, mpath, mdefault)
    /\ mpc' = "returned"
    /\ UNCHANGED <<rules, mpath, mdefault, mpat, mhit>>
    /\ UNCHANGED buildVars
    /\ UNCHANGED toolVars

CallMatchSingleRule(pat) ==
    /\ mpc # "idle" /\ mpat = None
    /\ mpat' = pat
    /\ mhit' = MatchSingleRule(pat, mpath)
    /\ UNCHANGED <<rules, mpc, mpath, mdefault, mresult>>
    /\ UNCHANGED buildVars
    /\ UNCHANGED toolVars

NextMatch ==
    \/ CallFirstMatchingRule
    \/ \E pat \in Patterns : CallMatchSingleRule(pat)

SpecMatch == InitMatch /\ [][NextMatch]_vars

---------------------------------------------------------------------------
(* Vocabulary of the properties. *)

Perms(n) == { p \in [1..n -> 1..n] : \A a, b \in 1..n : a # b => p[a] # p[b] }
Reorder(seq, p) == [k \in DOMAIN seq |-> seq[p[k]]]

\* The k-th pattern of the rule table glob-matches the path.
Matches(k, path) == MatchSingleRule(rules[k][1], path)
NoMatch(path) == \A k \in DOMAIN rules : ~Matches(k, path)
IsFirstMatch(k, path) == Matches(k, path) /\ \A j \in 1..(k - 1) : ~Matches(j, path)
SkipFirst(path) == \E k \in DOMAIN rules : IsFirstMatch(k, path) /\ rules[k][2] = None

\* The entries of a table that match the path, in table order.
RECURSIVE MatchingEntries(_, _)
MatchingEntries(rs, path) ==
    IF rs = << >> THEN << >>
    ELSE (IF MatchSingleRule(Head(rs)[1], path) THEN << Head(rs) >> ELSE << >>)
         \o MatchingEntries(Tail(rs), path)

\* Positions of the history by kind of call.
Calls(op) == { k \in DOMAIN log : log[k].op = op }
Returned == { k \in Calls("rule") : log[k].arg[3] # "raise" }
Emitted == { k \in Calls("rule") : log[k].arg[3] = "data" }

\* The triple a listener is due for the rule call at position k.
Observation(k) ==
    <<log[k].arg[1], log[k].arg[2], DataOf(log[k].arg[3], log[k].arg[1])>>

Observers == { j \in DOMAIN listeners : listeners[j].on_data_return }
Finalizers == { j \in DOMAIN listeners : listeners[j].before_execute }

\* The file positions of the calls of one kind, in history order.
RECURSIVE FileOrder(_, _)
FileOrder(events, keep) ==
    IF events = << >> THEN << >>
    ELSE (IF Head(events).op \in keep /\ Head(events).arg # << >>
             /\ (Head(events).op = "rule" => Head(events).arg[3] # "raise")
          THEN << Head(events).i >> ELSE << >>)
         \o FileOrder(Tail(events), keep)

\* build() ended, and not because a user's execution rule or execution raised.
UserErrors == {"TransformError", "ExecutionError"}
Ended == pc = "done" \/ (pc = "raised" /\ err \notin UserErrors)

---------------------------------------------------------------------------
(* The two-phase build. *)

\* C1: when a deferred action is invoked, the file loop has taken every file,
\* every execution-rule call is earlier in the history, every non-None
\* observation has been delivered to every listener with on_data_return, and
\* every listener with before_execute has had it called.
C1_DeferredAfterCollection ==
    \A x \in Calls("execution") :
        /\ fi > Len(files)
        /\ \A k \in Calls("rule") : k < x
        /\ \A k \in Emitted : \A j \in Observers :
               \E m \in 1..(x - 1) :
                   log[m] = Ev("on_data_return", log[k].i, listeners[j].name,
                               Observation(k))
        /\ \A j \in Finalizers :
               \E m \in 1..(x - 1) :
                   log[m].op = "before_execute" /\ log[m].l = listeners[j].name

\* A deferred action has run in a build of two files with listeners, the
\* second of which emitted an observation.
C1_Witness ==
    /\ Calls("execution") # {}
    /\ listeners # << >>
    /\ Len(files) = 2
    /\ \E k \in Emitted : log[k].i = 2

\* C2: the state handed to any deferred action holds, under every aggregating
\* listener (both hooks), the observation of every file that emitted one,
\* whether that file comes before or after the action's own file.
C2_OrderIndependence ==
    \A x \in Calls("execution") : \A k \in Emitted :
        \A j \in Observers \cap Finalizers :
            LET st == log[x].arg[1]
                n == listeners[j].name
            IN /\ n \in DOMAIN st
               /\ \E m \in DOMAIN st[n] : st[n][m] = Observation(k)

\* The deferred action of file 1 (an index: no observation of its own) ran
\* with an aggregator registered, and file 2, another file that comes later
\* in the file list, emitted an observation.
C2_Witness ==
    /\ \E x \in Calls("execution") : log[x].i = 1
    /\ \E k \in Returned \ Emitted : log[k].i = 1
    /\ \E k \in Emitted : log[k].i = 2
    /\ Len(files) = 2 /\ files[1] # files[2]
    /\ Observers \cap Finalizers # {}

---------------------------------------------------------------------------
(* The matcher. *)

\* C3: first_matching_rule returns the result of the lowest-index pattern that
\* matches the path, the default when none matches, and the same result for
\* every reordering of the table that keeps the matching entries in order.
C3_FirstMatchWins ==
    mpc = "returned" =>
        /\ NoMatch(mpath) => mresult = mdefault
        /\ \A k \in DOMAIN rules : IsFirstMatch(k, mpath) => mresult = rules[k][2]
        /\ \A p \in Perms(Len(rules)) :
               MatchingEntries(Reorder(rules, p), mpath) = MatchingEntries(rules, mpath)
               => FirstMatchingRule(Reorder(rules, p), mpath, mdefault) = mresult

\* The call returned for a table whose two first entries both match, with
\* different results.
C3_Witness ==
    /\ mpc = "returned"
    /\ Len(rules) >= 2
    /\ Matches(1, mpath) /\ Matches(2, mpath)
    /\ rules[1][2] # rules[2][2]
    /\ mresult = rules[1][2]

\* C4: a group matches exactly when one of its members matches, whatever the
\* order of its members, and an empty group matches nothing; in a table, a
\* single pattern that is the first match wins over a later matching group.
C4_GroupMatchesAny ==
    /\ (mpat # None /\ ~IsStr(mpat)) =>
           /\ mhit <=> \E k \in DOMAIN mpat[2] : FnMatch(mpath, mpat[2][k][2])
           /\ \A p \in Perms(Len(mpat[2])) :
                  MatchSingleRule(Group(Reorder(mpat[2], p)), mpath) = mhit
           /\ mpat[2] = << >> => ~mhit
    /\ mpc = "returned" =>
           \A k, g \in DOMAIN rules :
               (/\ k < g
                /\ IsStr(rules[k][1]) /\ IsFirstMatch(k, mpath)
                /\ ~IsStr(rules[g][1]) /\ Matches(g, mpath))
               => mresult = rules[k][2]

\* _match_single_rule returned True for a group whose second member is the
\* only one that matches.
C4_Witness ==
    /\ mpat # None /\ ~IsStr(mpat)
    /\ Len(mpat[2]) = 2
    /\ ~FnMatch(mpath, mpat[2][1][2])
    /\ FnMatch(mpath, mpat[2][2][2])
    /\ mhit

\* C7 as stated: the result for a path that matches no pattern differs from
\* the result for a path whose first matching pattern is paired with the skip
\* marker.
C7_NoRuleDistinctFromSkip ==
    (mpc = "returned" /\ NoMatch(mpath)) =>
        \A q \in Paths :
            SkipFirst(q) => mresult # FirstMatchingRule(rules, q, mdefault)

\* C7, amended: first_matching_rule returns its default argument for a path
\* that matches no pattern and None for a path whose first match is paired
\* with the skip marker, so the two results differ exactly when the caller
\* passes a default other than None.
C7_NoRuleIsDefault ==
    mpc = "returned" =>
        /\ NoMatch(mpath) => mresult = mdefault
        /\ SkipFirst(mpath) => mresult = None
        /\ NoMatch(mpath) =>
               \A q \in Paths :
                   SkipFirst(q) =>
                       (mresult # FirstMatchingRule(rules, q, mdefault)
                            <=> mdefault # None)

\* The call returned for a path that matches no pattern, under a default
\* other than None, with a table that skips another path.
C7_Witness ==
    /\ mpc = "returned"
    /\ mdefault = NoRule
    /\ NoMatch(mpath)
    /\ \E q \in Paths : SkipFirst(q)
    /\ mresult = NoRule

---------------------------------------------------------------------------
(* Skipped files. *)

\* C5 as stated: a file that no pattern matches leaves no call in the
\* history, and build() does not raise of its own.
C5_UnmatchedSkippedSilently ==
    /\ \A k \in DOMAIN log : log[k].i > 0 => ~NoMatch(files[log[k].i])
    /\ pc = "raised" => err \in UserErrors

\* C6: a file whose first matching pattern is paired with None leaves no call
\* in the history: no later entry's rule, no notification, no deferred action.
C6_SkipConsumesMatch ==
    \A i \in DOMAIN files :
        SkipFirst(files[i]) => \A k \in DOMAIN log : log[k].i # i

\* build() finished; file 1 was skipped by a None entry although a later
\* entry with a rule matches it too, and file 2 was built.
C6_Witness ==
    /\ pc = "done"
    /\ Len(files) = 2 /\ Len(rules) = 2
    /\ SkipFirst(files[1])
    /\ Matches(2, files[1]) /\ rules[2][2] # None
    /\ \E x \in Calls("execution") : log[x].i = 2

---------------------------------------------------------------------------
(* Listeners and deferred actions. *)

\* C8: on_data_return goes only to listeners that define it, only for files
\* whose rule returned data that is not None, with that file's names and
\* data, in file order; and once the collect phase is over every such
\* listener has been called exactly once for every such file.
C8_DataReturnOncePerObservation ==
    /\ \A m \in Calls("on_data_return") :
           /\ \E j \in Observers : listeners[j].name = log[m].l
           /\ \E k \in Emitted :
                  /\ log[k].i = log[m].i /\ k < m
                  /\ log[m].arg = Observation(k)
                  /\ log[m].arg[1] = InName(impl, files[log[m].i])
    /\ \A m, n \in Calls("on_data_return") :
           m < n => /\ log[m].i <= log[n].i
                    /\ log[m].l = log[n].l => log[m].i < log[n].i
    /\ pc \in {"execute", "done"} =>
           \A k \in Emitted : \A j \in Observers :
               Cardinality({ m \in Calls("on_data_return") :
                                 log[m].i = log[k].i
                                 /\ log[m].l = listeners[j].name }) = 1

\* build() finished with listeners; both files emitted an observation.
C8_Witness ==
    /\ pc = "done"
    /\ Observers # {}
    /\ Len(files) = 2
    /\ \A i \in 1..2 : \E k \in Emitted : log[k].i = i

\* C9 as stated: when build() has ended with listeners registered,
\* before_execute has been called exactly once on every listener that defines
\* it, after the last on_data_return, and exec_state has exactly one entry per
\* such listener, under its name, holding what the call returned.
C9_BeforeExecuteOnce ==
    (Ended /\ listeners # << >>) =>
        /\ \A j \in Finalizers :
               Cardinality({ m \in Calls("before_execute") :
                                 log[m].l = listeners[j].name }) = 1
        /\ \A m \in Calls("before_execute") :
               /\ \E j \in Finalizers : listeners[j].name = log[m].l
               /\ \A n \in Calls("on_data_return") : n < m
        /\ DOMAIN exec_state = { listeners[j].name : j \in Finalizers }
        /\ \A j \in Finalizers : exec_state[listeners[j].name] = collected[j]

\* C10: the deferred actions run in the order of their files, never twice,
\* only for files whose rule returned, each with the one exec_state; when
\* build() has finished every such file's action has run.
C10_ExecutionsInFileOrder ==
    /\ \A x, y \in Calls("execution") : x < y => log[x].i < log[y].i
    /\ \A x \in Calls("execution") :
           /\ \E k \in Returned : log[k].i = log[x].i
           /\ log[x].arg[1] = exec_state
    /\ pc = "done" =>
           FileOrder(log, {"execution"}) = FileOrder(log, {"rule"})

\* build() finished after running the deferred actions of two files.
C10_Witness ==
    /\ pc = "done"
    /\ Cardinality(Calls("execution")) = 2
    /\ FileOrder(log, {"execution"}) = <<1, 2>>

---------------------------------------------------------------------------
(* Path maps: replace_extensions, remove_extensions and                    *)
(* remove_internal_extensions of jssg/pathmap.py and jssg/__init__.py.     *)
(* Both files run the same loop over pathlib's suffix and with_suffix,     *)
(* which are modelled here on tuples of characters.                        *)

MaxNameLen == 5

ValueError == <<"ValueError">>

\* Position of the last ch in s, 0 when there is none.
RFind(s, ch) ==
    LET hits == {i \in 1..Len(s) : s[i] = ch}
    IN  IF hits = {} THEN 0 ELSE CHOOSE i \in hits : \A j \in hits : j <= i

\* pathlib.Path(fn).name and what precedes it.
PathName(path) == SubSeq(path, RFind(path, "/") + 1, Len(path))
PathParent(path) == SubSeq(path, 1, RFind(path, "/"))

\* path.suffix: the name from its last dot on, unless that dot is the
\* first or the last character of the name.
Suffix(path) ==
    LET name == PathName(path)
        dot == RFind(name, ".")
    IN  IF 1 < dot /\ dot < Len(name) THEN SubSeq(name, dot, Len(name))
        ELSE << >>

\* path.with_suffix(suffix): ValueError for a suffix that is "." or does
\* not start with a dot or holds a "/", and for an empty name.
WithSuffix(path, suffix) ==
    LET name == PathName(path)
        old == Suffix(path)
    IN  IF \/ \E i \in 1..Len(suffix) : suffix[i] = "/"
           \/ suffix # << >> /\ suffix[1] # "."
           \/ suffix = <<".">>
           \/ name = << >>
        THEN ValueError
        ELSE PathParent(path) \o SubSeq(name, 1, Len(name) - Len(old)) \o suffix

\* while path.suffix: path = path.with_suffix('')
RECURSIVE StripSuffixes(_)
StripSuffixes(path) ==
    IF Suffix(path) # << >> THEN StripSuffixes(WithSuffix(path, << >>))
    ELSE path

\* A plausible slip: the loop is left out, only the last suffix is replaced.
ReplaceExtensionsLastOnly(fn, suff) == WithSuffix(fn, suff)

\* replace_extensions: strip every suffix, then with_suffix(suff).as_posix().
ReplaceExtensions(fn, suff) ==
    WithSuffix(StripSuffixes(fn), suff)

\* remove_extensions = replace_extensions with suff "".
RemoveExtensions(fn) == ReplaceExtensions(fn, << >>)

\* A plausible slip: the final suffix is dropped with the internal ones.
RemoveInternalExtensionsDropsLast(fn) == ReplaceExtensions(fn, << >>)

\* remove_internal_extensions: replace_extensions with the path's own suffix.
RemoveInternalExtensions(fn) == ReplaceExtensions(fn, Suffix(fn))

\* File names: the strings over "a" and "." with at least one letter.
NameChars == {"a", "."}
FileNames ==
    { n \in UNION { [1..k -> NameChars] : k \in 1..MaxNameLen } :
        \E i \in 1..Len(n) : n[i] = "a" }

\* Directory parts: none, or "d.e/".
Directories == { << >>, <<"d", ".", "e", "/">> }

\* The suff arguments: "", ".t", and the invalid ".".
Suffixes == { << >>, <<".", "t">>, <<".">> }

InitPath ==
    /\ ppc = "ready"
    /\ pfn \in { d \o n : d \in Directories, n \in FileNames }
    /\ psuff \in Suffixes
    /\ pcall = ""
    /\ presult = << >>
    /\ rules = << >>
    /\ BuildIdle
    /\ MatchIdle
    /\ FileMapIdle
    /\ PagesIdle
    /\ JinjaIdle

CallReplaceExtensions ==
    /\ ppc = "ready"
    /\ pcall' = "replace_extensions"
    /\ presult' = ReplaceExtensions(pfn, psuff)
    /\ ppc' = "returned"
    /\ UNCHANGED <<pfn, psuff>>
    /\ UNCHANGED <<rules, buildVars, rebuildVars, builtinVars, matchVars, fileMapVars, pageVars, jinjaVars>>

CallRemoveExtensions ==
    /\ ppc = "ready"
    /\ pcall' = "remove_extensions"
    /\ presult' = RemoveExtensions(pfn)
    /\ ppc' = "returned"
    /\ UNCHANGED <<pfn, psuff>>
    /\ UNCHANGED <<rules, buildVars, rebuildVars, builtinVars, matchVars, fileMapVars, pageVars, jinjaVars>>

CallRemoveInternalExtensions ==
    /\ ppc = "ready"
    /\ pcall' = "remove_internal_extensions"
    /\ presult' = RemoveInternalExtensions(pfn)
    /\ ppc' = "returned"
    /\ UNCHANGED <<pfn, psuff>>
    /\ UNCHANGED <<rules, buildVars, rebuildVars, builtinVars, matchVars, fileMapVars, pageVars, jinjaVars>>

NextPath ==
    \/ CallReplaceExtensions
    \/ CallRemoveExtensions
    \/ CallRemoveInternalExtensions

SpecPath == InitPath /\ [][NextPath]_vars

(* Vocabulary of the path-map properties. *)

\* The directory part of a path, its "/" included, and the file name.
DirPart(path) ==
    IF \E i \in 1..Len(path) : path[i] = "/"
    THEN SubSeq(path, 1, CHOOSE i \in 1..Len(path) :
                             /\ path[i] = "/"
                             /\ \A j \in (i + 1)..Len(path) : path[j] # "/")
    ELSE << >>
FilePart(path) == SubSeq(path, Len(DirPart(path)) + 1, Len(path))

\* Positions of the dots of the file name.
Dots(path) == {i \in 1..Len(FilePart(path)) : FilePart(path)[i] = "."}

\* The file name is a stem followed by dotted suffixes: it neither starts
\* nor ends with a dot and no two dots are adjacent.
Dotted(path) ==
    LET name == FilePart(path)
    IN  /\ name # << >>
        /\ name[1] # "." /\ name[Len(name)] # "."
        /\ \A i \in Dots(path) : i + 1 \notin Dots(path)

SuffixCount(path) == Cardinality(Dots(path))

\* The name up to its first dot, and the name from its last dot on.
Stem(path) ==
    LET name == FilePart(path)
    IN  IF Dots(path) = {} THEN name
        ELSE SubSeq(name, 1, (CHOOSE i \in Dots(path) :
                                  \A j \in Dots(path) : i <= j) - 1)
FinalSuffix(path) ==
    LET name == FilePart(path)
    IN  IF Dots(path) = {} THEN << >>
        ELSE SubSeq(name, CHOOSE i \in Dots(path) :
                              \A j \in Dots(path) : j <= i, Len(name))

\* C11: replace_extensions on a name with K >= 0 dotted suffixes and a
\* replacement that is one ".ext" or empty returns the directory part, the
\* stem without any of the K suffixes, and the replacement; remove_extensions
\* is the same with the empty replacement.
C11_ReplaceExtensions ==
    (ppc = "returned" /\ Dotted(pfn)) =>
        /\ (pcall = "replace_extensions" /\ psuff \in {<< >>, <<".", "t">>}) =>
               presult = DirPart(pfn) \o Stem(pfn) \o psuff
        /\ pcall = "remove_extensions" =>
               presult = DirPart(pfn) \o Stem(pfn)

\* "d.e/a.a.a" with ".t" gave "d.e/a.t".
C11_Witness ==
    /\ ppc = "returned" /\ pcall = "replace_extensions"
    /\ Dotted(pfn) /\ SuffixCount(pfn) = 2 /\ DirPart(pfn) # << >>
    /\ psuff = <<".", "t">>
    /\ presult = <<"d", ".", "e", "/", "a", ".", "t">>

\* C12: remove_internal_extensions keeps the directory part, the stem and
\* the final suffix and removes the suffixes in between; a name with no or
\* one suffix comes back unchanged.
C12_RemoveInternalExtensions ==
    (ppc = "returned" /\ pcall = "remove_internal_extensions" /\ Dotted(pfn)) =>
        /\ presult = DirPart(pfn) \o Stem(pfn) \o FinalSuffix(pfn)
        /\ SuffixCount(pfn) <= 1 => presult = pfn

\* "d.e/a.a.a" gave "d.e/a.a".
C12_Witness ==
    /\ ppc = "returned" /\ pcall = "remove_internal_extensions"
    /\ Dotted(pfn) /\ SuffixCount(pfn) = 2 /\ DirPart(pfn) # << >>
    /\ presult = <<"d", ".", "e", "/", "a", ".", "a">>

---------------------------------------------------------------------------
(* File maps: FileMapper.execute of jssg/__init__.py, and                  *)
(* FileMapExecutionRule with _execute_callable_as_filemap of               *)
(* jssg/execution_rule.py.  A transform f is described by the call shapes  *)
(* it accepts and by how its body ends.                                    *)

\* The three call shapes: f(inpath, outpath), f(fs, inf, outf), f(str).
Shapes == {"paths", "fs", "text"}

\* How a body ends: it returns, or raises TypeError or some other error.
BodyEnds == {"", "TypeError", "OSError"}

Transforms == [accepts : SUBSET Shapes, raises : BodyEnds]

\* fs.resolve_in and fs.resolve_out of build_env.FileSys.
ResolveIn(inf) == JoinPath(Indir, inf)
ResolveOut(outf) == JoinPath(Outdir, outf)

\* What fs.read returns for a file, and what a text transform makes of it.
Content(path) == <<"content", path>>
TextOf(s) == <<"f", s>>

\* Entries of the log: a call of f with its shape, arguments and outcome,
\* and the calls of the file system object.
CallEvent(shape, args, outcome) == <<"call", shape, args, outcome>>
ReadEvent(path) == <<"read", path>>
WriteEvent(path, s) == <<"write", path, s>>
CopyEvent(inf, outf) == <<"copy", inf, outf>>

\* f(*args): a call whose shape f does not accept raises TypeError before
\* the body runs; otherwise the body runs and ends as f.raises says.  The
\* body of a transform of the fs shape copies like copy_file.
CallOutcome(f, shape) ==
    IF shape \notin f.accepts THEN "TypeError" ELSE f.raises

CallF(f, shape, args) ==
    LET outcome == CallOutcome(f, shape)
        effects == IF shape = "fs" /\ outcome = ""
                   THEN << CopyEvent(args[1], args[2]) >> ELSE << >>
    IN  [log |-> << CallEvent(shape, args, outcome) >> \o effects,
         exc |-> outcome]

\* A plausible slip: the output is written whatever f(s) did.
WrappedExecuteWritesAnyway(f, inpath, outpath) ==
    LET c == CallF(f, "text", << Content(inpath) >>)
    IN  [log |-> << ReadEvent(inpath) >> \o c.log
                    \o << WriteEvent(outpath, TextOf(Content(inpath))) >>,
         exc |-> ""]

\* FileMapper.wrapped_execute: read, f(s), write.
WrappedExecute(f, inpath, outpath) ==
    LET c == CallF(f, "text", << Content(inpath) >>)
    IN  IF c.exc # "" THEN [log |-> << ReadEvent(inpath) >> \o c.log,
                            exc |-> c.exc]
        ELSE [log |-> << ReadEvent(inpath) >> \o c.log
                         \o << WriteEvent(outpath, TextOf(Content(inpath))) >>,
              exc |-> ""]

\* FileMapper.execute: op(inpath, outpath), on TypeError
\* op(self.filesys, inpath, outpath), on TypeError wrapped_execute.
FileMapperExecute(f, inpath, outpath) ==
    LET c1 == CallF(f, "paths", <<inpath, outpath>>)
        c2 == CallF(f, "fs", <<inpath, outpath>>)
        c3 == WrappedExecute(f, inpath, outpath)
    IN  IF c1.exc # "TypeError" THEN c1
        ELSE IF c2.exc # "TypeError"
             THEN [log |-> c1.log \o c2.log, exc |-> c2.exc]
             ELSE [log |-> c1.log \o c2.log \o c3.log, exc |-> c3.exc]

\* _execute_callable_as_filemap: f(resolve_in(inpath), resolve_out(outpath)),
\* on TypeError f(fs, inpath, outpath), on TypeError the third branch, whose
\* first statement reads the name op, which is bound nowhere: NameError.
ExecuteCallableAsFilemap(f, inpath, outpath) ==
    LET c1 == CallF(f, "paths", <<ResolveIn(inpath), ResolveOut(outpath)>>)
        c2 == CallF(f, "fs", <<inpath, outpath>>)
    IN  IF c1.exc # "TypeError" THEN c1
        ELSE IF c2.exc # "TypeError"
             THEN [log |-> c1.log \o c2.log, exc |-> c2.exc]
             ELSE [log |-> c1.log \o c2.log, exc |-> "NameError"]

\* The names the calls are made with: "x.t" and "a/x.y".
FileMapNames == { <<"x", ".", "t">>, <<"a", "/", "x", ".", "y">> }

InitFileMap ==
    /\ fimpl \in {"FileMapper", "FileMapExecutionRule"}
    /\ ff \in Transforms
    /\ finf \in FileMapNames
    /\ foutf \in FileMapNames
    /\ fpc = "ready"
    /\ fstate = None
    /\ flog = << >>
    /\ ferr = ""
    /\ rules = << >>
    /\ BuildIdle
    /\ MatchIdle
    /\ PathIdle
    /\ PagesIdle
    /\ JinjaIdle

\* filemaps.execute(op, inpath, outpath)
CallFileMapperExecute ==
    /\ fimpl = "FileMapper" /\ fpc = "ready"
    /\ LET r == FileMapperExecute(ff, finf, foutf)
       IN  flog' = r.log /\ ferr' = r.exc
    /\ fpc' = "done"
    /\ UNCHANGED <<fimpl, ff, finf, foutf, fstate>>
    /\ UNCHANGED <<rules, buildVars, rebuildVars, builtinVars, matchVars, pathVars, pageVars, jinjaVars>>

\* FileMapExecutionRule.__call__: returns the deferred action and the state
\* dict(type='filemap', function, data=(inf, outf)); nothing is run yet.
CallFileMapExecutionRule ==
    /\ fimpl = "FileMapExecutionRule" /\ fpc = "ready"
    /\ fstate' = <<"filemap", ff, <<finf, foutf>> >>
    /\ fpc' = "deferred"
    /\ UNCHANGED <<fimpl, ff, finf, foutf, flog, ferr>>
    /\ UNCHANGED <<rules, buildVars, rebuildVars, builtinVars, matchVars, pathVars, pageVars, jinjaVars>>

\* ex(state): the deferred action runs _execute_callable_as_filemap.
RunDeferredAction ==
    /\ fimpl = "FileMapExecutionRule" /\ fpc = "deferred"
    /\ LET r == ExecuteCallableAsFilemap(ff, finf, foutf)
       IN  flog' = r.log /\ ferr' = r.exc
    /\ fpc' = "done"
    /\ UNCHANGED <<fimpl, ff, finf, foutf, fstate>>
    /\ UNCHANGED <<rules, buildVars, rebuildVars, builtinVars, matchVars, pathVars, pageVars, jinjaVars>>

NextFileMap ==
    \/ CallFileMapperExecute
    \/ CallFileMapExecutionRule
    \/ RunDeferredAction

SpecFileMap == InitFileMap /\ [][NextFileMap]_vars

(* Vocabulary of the file-map properties. *)

\* The calls of f in the log, and the calls of the file system object.
FCalls == SelectSeq(flog, LAMBDA e : e[1] = "call")
FsCalls == SelectSeq(flog, LAMBDA e : e[1] # "call")

\* f takes one string and returns one: it accepts the text shape alone and
\* its body returns.
TextTransform(f) == f.accepts = {"text"} /\ f.raises = ""

\* The arguments of the two-path shape: FileMapper.execute passes its
\* inpath and outpath on, _execute_callable_as_filemap resolves the names.
PathsArgs ==
    IF fimpl = "FileMapper" THEN <<finf, foutf>>
    ELSE <<ResolveIn(finf), ResolveOut(foutf)>>

\* C13 as stated: a text transform is executed as read(input) then
\* write(output, f(content)), without error, through FileMapper.execute and
\* through the deferred action of FileMapExecutionRule.
C13_TextShapeReadsThenWrites ==
    (fpc = "done" /\ TextTransform(ff)) =>
        /\ ferr = ""
        /\ FsCalls = << ReadEvent(finf),
                        WriteEvent(foutf, TextOf(Content(finf))) >>

\* C14 as stated: the shapes are tried in the order two paths, fs, text,
\* each after the first only when the one before raised TypeError; a
\* transform that takes two paths is never called with the fs object.
C14_DispatchPriority ==
    fpc = "done" =>
        /\ Len(FCalls) \in 1..3
        /\ FCalls[1][2] = "paths" /\ FCalls[1][3] = PathsArgs
        /\ Len(FCalls) >= 2 <=> FCalls[1][4] = "TypeError"
        /\ Len(FCalls) >= 2 =>
               /\ FCalls[2][2] = "fs" /\ FCalls[2][3] = <<finf, foutf>>
               /\ Len(FCalls) = 3 <=> FCalls[2][4] = "TypeError"
        /\ Len(FCalls) = 3 =>
               FCalls[3][2] = "text" /\ FCalls[3][3] = << Content(finf) >>
        /\ ("paths" \in ff.accepts /\ ff.raises # "TypeError") =>
               \A k \in 1..Len(FCalls) : FCalls[k][2] # "fs"

\* C15: when f accepts none of the three shapes the action ends in an error
\* that reaches the caller, and nothing was written or copied.
C15_NoShapeAcceptedPropagates ==
    (fpc = "done" /\ ff.accepts = {}) =>
        /\ ferr # ""
        /\ \A k \in 1..Len(flog) : flog[k][1] \notin {"write", "copy"}

\* FileMapper.execute tried all three shapes, read the input, and ended in
\* the TypeError of the last call.
C15_Witness ==
    /\ fpc = "done" /\ fimpl = "FileMapper" /\ ff.accepts = {}
    /\ Len(FCalls) = 3
    /\ FsCalls = << ReadEvent(finf) >>
    /\ ferr = "TypeError"

\* The calls in which the body of f ran: those under a shape f accepts.
BodyRuns == SelectSeq(FCalls, LAMBDA e : e[2] \in ff.accepts)

\* A call that did not raise TypeError is the last one, and every call but
\* the first follows a call that raised TypeError.
ShapesStopAtFirstAnswer ==
    \A k \in 1..Len(FCalls) :
        /\ FCalls[k][4] # "TypeError" => k = Len(FCalls)
        /\ k > 1 => FCalls[k - 1][4] = "TypeError"

\* C25 as stated: within one file-map action no shape is tried after a call
\* that did not raise TypeError, a later shape is tried only after a
\* TypeError, and the body of a transform that accepts the shape it is
\* called with runs exactly once.
C25_BodyRunsOnce ==
    /\ ShapesStopAtFirstAnswer
    /\ (fpc = "done" /\ BodyRuns # << >>) => Len(BodyRuns) = 1

---------------------------------------------------------------------------
(* PageCollection of jssg.py: push, history, by_year, all_pages.  A page   *)
(* is a record, a date the pair <<year, day>>, and an optional integer     *)
(* (count, current_year) is None or the one-element tuple of its value.    *)

MaxPages == 3

DefaultCount == 20

\* sort_key of __init__, at its default.
SortKey == "date"

Some(n) == <<n>>

Dates == { <<1, 1>>, <<1, 2>>, <<2, 1>> }
Year(date) == date[1]

\* key < other for dates.
KeyLess(a, b) == a[1] < b[1] \/ (a[1] = b[1] /\ a[2] < b[2])

\* The page_dict arguments: pages with a date, and one without.
DatedPages == [title : {"p", "q"}, date : Dates]
PageDicts == DatedPages \union { [title |-> "p"] }

\* additional_ctx as jinja_file builds it.
AdditionalCtx == [href |-> "h"]

\* list.insert(x, v)
Insert(s, x, v) == SubSeq(s, 1, x) \o << v >> \o SubSeq(s, x + 1, Len(s))

\* reversed(s)
Reversed(s) == [i \in 1..Len(s) |-> s[Len(s) + 1 - i]]

\* bisect.bisect_left(a, x): binary search for the leftmost insertion point.
RECURSIVE BisectLoop(_, _, _, _)
BisectLoop(a, x, lo, hi) ==
    IF lo < hi
    THEN LET mid == (lo + hi) \div 2
         IN  IF KeyLess(a[mid + 1], x) THEN BisectLoop(a, x, mid + 1, hi)
             ELSE BisectLoop(a, x, lo, mid)
    ELSE lo

\* A plausible slip: the page is appended, not inserted at its place.
BisectEnd(a, x) == Len(a)

BisectLeft(a, x) == BisectLoop(a, x, 0, Len(a))

\* A plausible slip: a page without the key is stored before the lookup fails.
PushStoresFirst(pg, ks, page_dict, with_ctx) ==
    LET d == IF with_ctx THEN AdditionalCtx @@ page_dict ELSE page_dict
    IN  IF SortKey \notin DOMAIN d
        THEN [pages |-> Append(pg, d), keys |-> ks, exc |-> "KeyError"]
        ELSE [pages |-> Insert(pg, BisectLeft(ks, d[SortKey]), d),
              keys |-> Insert(ks, BisectLeft(ks, d[SortKey]), d[SortKey]),
              exc |-> ""]

\* push(page_dict, additional_ctx): copy and update when a context is given,
\* look the key up (KeyError when it is missing), insert key and page.
Push(pg, ks, page_dict, with_ctx) ==
    LET d == IF with_ctx THEN AdditionalCtx @@ page_dict ELSE page_dict
    IN  IF SortKey \notin DOMAIN d
        THEN [pages |-> pg, keys |-> ks, exc |-> "KeyError"]
        ELSE [pages |-> Insert(pg, BisectLeft(ks, d[SortKey]), d),
              keys |-> Insert(ks, BisectLeft(ks, d[SortKey]), d[SortKey]),
              exc |-> ""]

\* The record push stores.
Stored(page_dict, with_ctx) ==
    IF with_ctx THEN AdditionalCtx @@ page_dict ELSE page_dict

\* A plausible slip: "i > count" for "i >= count".
HistoryOneMore(pg, count) ==
    LET n == IF count = None THEN Len(pg) ELSE count[1] + 1
    IN  SubSeq(Reversed(pg), 1, IF n < Len(pg) THEN n ELSE Len(pg))

\* history(count): the loop over enumerate(reversed(self.pages)), i is the
\* 1-based position here.
RECURSIVE HistoryLoop(_, _, _)
HistoryLoop(rev, count, i) ==
    IF i > Len(rev) THEN << >>
    ELSE IF count # None /\ i - 1 >= count[1] THEN << >>
         ELSE << rev[i] >> \o HistoryLoop(rev, count, i + 1)

History(pg, count) == HistoryLoop(Reversed(pg), count, 1)

\* all_pages()
AllPages(pg) == History(pg, Some(Len(pg)))

\* The local obj: unbound before its first assignment, else the one-element
\* tuple of the group it names.
Unbound == << >>

\* by_year(): the loop over reversed(self.pages) and the final "yield obj".
\* out is what has been yielded so far.
RECURSIVE ByYearLoop(_, _, _, _, _)
ByYearLoop(rev, i, current_year, obj, out) ==
    IF i > Len(rev)
    THEN IF obj = Unbound
         THEN [groups |-> out, exc |-> "UnboundLocalError"]
         ELSE [groups |-> Append(out, obj[1]), exc |-> ""]
    ELSE LET post == rev[i]
             year == Year(post.date)
         IN  IF Some(year) # current_year
             THEN ByYearLoop(rev, i + 1, Some(year),
                             << [year |-> year, posts |-> << post >>] >>,
                             IF current_year # None THEN Append(out, obj[1])
                             ELSE out)
             ELSE ByYearLoop(rev, i + 1, current_year,
                             << [obj[1] EXCEPT !.posts = Append(@, post)] >>,
                             out)

ByYear(pg) == ByYearLoop(Reversed(pg), 1, None, Unbound, << >>)

\* The count arguments: None, 0 .. MaxPages + 1, and the default.
Counts == {None} \union { Some(n) : n \in 0..(MaxPages + 1) }
              \union { Some(DefaultCount) }

InitPages ==
    /\ pages = << >>
    /\ keys = << >>
    /\ pushed = << >>
    /\ pgcall = ""
    /\ pgarg = None
    /\ pgresult = << >>
    /\ pgerr = ""
    /\ rules = << >>
    /\ BuildIdle
    /\ MatchIdle
    /\ PathIdle
    /\ FileMapIdle
    /\ JinjaIdle

CallPush(page_dict, with_ctx) ==
    /\ Len(pages) < MaxPages
    /\ LET r == Push(pages, keys, page_dict, with_ctx)
       IN  /\ pages' = r.pages
           /\ keys' = r.keys
           /\ pgerr' = r.exc
           /\ pushed' = IF r.exc = ""
                        THEN Append(pushed, Stored(page_dict, with_ctx))
                        ELSE pushed
    /\ pgcall' = "push"
    /\ pgarg' = << Stored(page_dict, with_ctx) >>
    /\ pgresult' = << >>
    /\ UNCHANGED <<rules, buildVars, rebuildVars, builtinVars, matchVars, pathVars, fileMapVars, jinjaVars>>

CallHistory(count) ==
    /\ pgcall' = "history"
    /\ pgarg' = count
    /\ pgresult' = History(pages, count)
    /\ pgerr' = ""
    /\ UNCHANGED <<pages, keys, pushed>>
    /\ UNCHANGED <<rules, buildVars, rebuildVars, builtinVars, matchVars, pathVars, fileMapVars, jinjaVars>>

CallAllPages ==
    /\ pgcall' = "all_pages"
    /\ pgarg' = None
    /\ pgresult' = AllPages(pages)
    /\ pgerr' = ""
    /\ UNCHANGED <<pages, keys, pushed>>
    /\ UNCHANGED <<rules, buildVars, rebuildVars, builtinVars, matchVars, pathVars, fileMapVars, jinjaVars>>

\* list(by_year()): the generator is run to its end.
CallByYear ==
    /\ pgcall' = "by_year"
    /\ pgarg' = None
    /\ LET r == ByYear(pages)
       IN  pgresult' = r.groups /\ pgerr' = r.exc
    /\ UNCHANGED <<pages, keys, pushed>>
    /\ UNCHANGED <<rules, buildVars, rebuildVars, builtinVars, matchVars, pathVars, fileMapVars, jinjaVars>>

NextPages ==
    \/ \E page_dict \in PageDicts, with_ctx \in BOOLEAN :
           CallPush(page_dict, with_ctx)
    \/ \E count \in Counts : CallHistory(count)
    \/ CallAllPages
    \/ CallByYear

SpecPages == InitPages /\ [][NextPages]_vars

(* Vocabulary of the PageCollection properties. *)

Occurrences(s, r) == Cardinality({i \in 1..Len(s) : s[i] = r})

Elements(s) == {s[i] : i \in 1..Len(s)}

\* s holds its records in non-decreasing, or non-increasing, key order.
Ascending(s) ==
    \A i, j \in 1..Len(s) : i < j => ~KeyLess(s[j][SortKey], s[i][SortKey])
Descending(s) ==
    \A i, j \in 1..Len(s) : i < j => ~KeyLess(s[i][SortKey], s[j][SortKey])

\* The posts of a sequence of groups, one after the other.
RECURSIVE AllPosts(_)
AllPosts(groups) ==
    IF groups = << >> THEN << >>
    ELSE groups[1].posts \o AllPosts(Tail(groups))

\* C16: after any sequence of pushes the pages are in non-decreasing order
\* of the sort key, keys mirrors them, and the collection holds exactly the
\* pushed records, each as often as it was pushed.
C16_PushKeepsSorted ==
    /\ Ascending(pages)
    /\ keys = [i \in 1..Len(pages) |-> pages[i][SortKey]]
    /\ Len(pages) = Len(pushed)
    /\ \A r \in Elements(pushed) \union Elements(pages) :
           Occurrences(pages, r) = Occurrences(pushed, r)

\* Pushes with the keys of rank 3, 1, 2 ended in the order 1, 2, 3.
C16_Witness ==
    /\ Len(pushed) = 3
    /\ pushed[1].date = <<2, 1>> /\ pushed[2].date = <<1, 1>>
    /\ pushed[3].date = <<1, 2>>
    /\ keys = << <<1, 1>>, <<1, 2>>, <<2, 1>> >>
    /\ pages = << pushed[2], pushed[3], pushed[1] >>

\* C17: history(n) on m records yields min(n, m) records, those of the
\* highest keys, in descending key order; history(None) and all_pages()
\* yield all m records in descending key order.
C17_HistoryMostRecentFirst ==
    LET m == Len(pages)
        n == IF pgcall = "all_pages" \/ pgarg = None THEN m
             ELSE IF pgarg[1] < m THEN pgarg[1] ELSE m
    IN  pgcall \in {"history", "all_pages"} =>
            /\ pgerr = ""
            /\ Len(pgresult) = n
            /\ Descending(pgresult)
            /\ \A i \in 1..n : pgresult[i] = pages[m + 1 - i]
            /\ \A i \in 1..n : \A j \in 1..(m - n) :
                   ~KeyLess(pgresult[i][SortKey], pages[j][SortKey])

\* history(2) on three records of different dates gave the two latest.
C17_Witness ==
    /\ pgcall = "history" /\ pgarg = Some(2)
    /\ keys = << <<1, 1>>, <<1, 2>>, <<2, 1>> >>
    /\ pgresult = << pages[3], pages[2] >>

\* C18 as stated: by_year() yields one group per maximal run of records of
\* one year, most recent first; no group is empty, every post of a group has
\* the group's year, the groups' posts one after the other are the pages
\* most recent first; on an empty collection it yields nothing and raises
\* nothing.
C18_ByYearGroups ==
    pgcall = "by_year" =>
        /\ pgerr = ""
        /\ \A k \in 1..Len(pgresult) :
               /\ pgresult[k].posts # << >>
               /\ \A x \in 1..Len(pgresult[k].posts) :
                      Year(pgresult[k].posts[x].date) = pgresult[k].year
        /\ \A k \in 1..(Len(pgresult) - 1) :
               pgresult[k].year # pgresult[k + 1].year
        /\ AllPosts(pgresult) = Reversed(pages)
        /\ pages = << >> => pgresult = << >>

\* C19: a push of a record without the sort key raises, and pages and keys
\* are what they were before the call.
C19_KeylessPushChangesNothing ==
    [][(pgcall' = "push" /\ SortKey \notin DOMAIN pgarg'[1]) =>
           (pgerr' = "KeyError" /\ pages' = pages /\ keys' = keys)]_vars

\* A push without the key failed on a collection that holds two pages.
C19_Witness ==
    /\ pgcall = "push" /\ SortKey \notin DOMAIN pgarg[1]
    /\ pgerr = "KeyError"
    /\ Len(pages) = 2 /\ Len(keys) = 2

\* The position at which a record that was pushed once was pushed.
PushIndex(r) == CHOOSE k \in 1..Len(pushed) : pushed[k] = r

\* C21 as stated: two records of equal sort key stand in pages in the order
\* in which they were pushed.
C21_EqualKeysInPushOrder ==
    \A i, j \in 1..Len(pages) :
        ( /\ i < j
          /\ pages[i][SortKey] = pages[j][SortKey]
          /\ Occurrences(pushed, pages[i]) = 1
          /\ Occurrences(pushed, pages[j]) = 1 ) =>
            PushIndex(pages[i]) < PushIndex(pages[j])

---------------------------------------------------------------------------
(* The Jinja execution rules of jssg/jinja_utils.py: JinjaFile, which      *)
(* delegates to JinjaDataFile, and JinjaLayoutFile (JinjaFile.as_layout).  *)
(* A template is described by the layout name it exports as                *)
(* content_layout: "" when it sets none.  One rule object is called for    *)
(* file after file; its deferred actions are run later, in order.          *)

MaxJinjaFiles == 2

\* Input templates: no layout, the layout "base", and a layout name the
\* loader does not find.
Templates == [content_layout : {"", "base", "absent"}]
LoadableTemplates == {"base"}

\* self.ctx: the render context and the immediate context providers.  The
\* provider my_ctx returns {"infile": inf}; draft_ctx returns {"draft": s}
\* for the file "x.t" and {} for any other.
BaseContext == [my_var |-> "v"]
ImmediateContexts ==
    { << >>, << "my_ctx" >>, << "my_ctx", "draft_ctx" >> }
DraftFile == <<"x", ".", "t">>

\* What build() hands to the deferred action as state.
UserStates == { [pages |-> << >>], [pages |-> << "p" >>] }

\* ctx(self.render_context, inf, outf, s) for one provider.
Provider(name, render_context, inf, outf, s) ==
    CASE name = "my_ctx" -> [infile |-> inf]
      [] name = "draft_ctx" ->
             IF inf = DraftFile THEN [draft |-> s] ELSE EmptyDict

\* The calls get_immediate makes, in order.
ProviderCalls(imm, render_context, inf, outf, s) ==
    [k \in 1..Len(imm) |-> << imm[k], render_context, inf, outf, s >>]

\* Context.get_immediate: the providers' dicts, merged in order.
RECURSIVE GetImmediate(_, _, _, _, _)
GetImmediate(imm, render_context, inf, outf, s) ==
    IF imm = << >> THEN EmptyDict
    ELSE GetImmediate(Tail(imm), render_context, inf, outf, s)
             @@ Provider(Head(imm), render_context, inf, outf, s)

\* Context.add(ctx): a copy of the render context updated with ctx.
ContextAdd(render_context, ctx) == ctx @@ render_context

\* A plausible slip: the update is made on self.render_context itself.
SelfAfterAddInPlace(render_context, ctx) == ctx @@ render_context

\* self.render_context after add(ctx): the update went to the copy.
SelfAfterAdd(render_context, ctx) == render_context

\* Context.with_immediate: add(get_immediate(...)).empty_immediate()
WithImmediate(render_context, imm, inf, outf, s) ==
    ContextAdd(render_context, GetImmediate(imm, render_context, inf, outf, s))

\* template.make_module(ctx.as_dict()) and template.render(dict).
AsModule(t, ctx) == <<"module", t, ctx>>
Render(t, ctx) == <<"render", t, ctx>>

\* env.get_template(name) of a layout name.
LayoutTemplate(name) == <<"layout", name>>

\* The deferred action a rule returns: what its lambda has captured.
Closure(kind, t, inf, outf, ctx, layout) ==
    [kind |-> kind, t |-> t, inf |-> inf, outf |-> outf, ctx |-> ctx,
     layout |-> layout]

\* JinjaDataFile.__call__: read, with_immediate, make the module, read its
\* content_layout (AttributeError when the template sets none), load the
\* layout (TemplateNotFound when there is none of that name); the deferred
\* action writes the layout rendered with user_context and data_template.
JinjaDataFile(t, render_context, imm, inf, outf) ==
    LET s == Content(inf)
        ctx == WithImmediate(render_context, imm, inf, outf, s)
        tmod == AsModule(t, ctx)
        exc == IF t.content_layout = "" THEN "AttributeError"
               ELSE IF t.content_layout \notin LoadableTemplates
                    THEN "TemplateNotFound" ELSE ""
    IN  [log |-> << ReadEvent(inf) >>,
         calls |-> ProviderCalls(imm, render_context, inf, outf, s),
         self |-> SelfAfterAdd(render_context,
                     GetImmediate(imm, render_context, inf, outf, s)),
         exc |-> exc,
         state |-> IF exc = "" THEN <<"jinja_template", ctx, tmod>> ELSE None,
         execution |-> Closure("data", t, inf, outf, ctx,
                               LayoutTemplate(t.content_layout))]

\* JinjaLayoutFile.__call__: read, with_immediate; the state is None; the
\* deferred action writes the template itself rendered with user_context.
JinjaLayoutFile(t, render_context, imm, inf, outf) ==
    LET s == Content(inf)
        ctx == WithImmediate(render_context, imm, inf, outf, s)
    IN  [log |-> << ReadEvent(inf) >>,
         calls |-> ProviderCalls(imm, render_context, inf, outf, s),
         self |-> SelfAfterAdd(render_context,
                     GetImmediate(imm, render_context, inf, outf, s)),
         exc |-> "",
         state |-> None,
         execution |-> Closure("layout", t, inf, outf, ctx, None)]

\* JinjaFile.__call__: JinjaDataFile(self.env, self.ctx)(fs, inf, outf)
JinjaFile(t, render_context, imm, inf, outf) ==
    JinjaDataFile(t, render_context, imm, inf, outf)

\* The dict a deferred action renders with, and the value it writes.
RenderContext(c, state) ==
    IF c.kind = "data"
    THEN ContextAdd(c.ctx, [user_context |-> state,
                            data_template |-> AsModule(c.t, c.ctx)])
    ELSE ContextAdd(c.ctx, [user_context |-> state])

DataFileOutput(c, state) == Render(c.layout, RenderContext(c, state))

LayoutFileOutput(c, state) == Render(c.t, RenderContext(c, state))

InitJinja ==
    /\ jrule \in {"JinjaFile", "JinjaLayoutFile"}
    /\ jtemplate \in Templates
    /\ jimm \in ImmediateContexts
    /\ jinf \in FileMapNames
    /\ joutf \in FileMapNames
    /\ jpc = "ready"
    /\ jstate = None
    /\ jlog = << >>
    /\ jerr = ""
    /\ jrc = BaseContext
    /\ jn = 1
    /\ jqueue = << >>
    /\ jfiles = << >>
    /\ jcalls = << >>
    /\ jrenders = << >>
    /\ rules = << >>
    /\ BuildIdle
    /\ MatchIdle
    /\ PathIdle
    /\ FileMapIdle
    /\ PagesIdle

\* What a call of the rule leaves behind.
AfterRuleCall(r) ==
    /\ jlog' = jlog \o r.log
    /\ jcalls' = jcalls \o r.calls
    /\ jfiles' = Append(jfiles, <<jinf, joutf>>)
    /\ jrc' = r.self
    /\ jerr' = r.exc
    /\ jstate' = r.state
    /\ jqueue' = IF r.exc = "" THEN Append(jqueue, r.execution) ELSE jqueue
    /\ jpc' = IF r.exc = "" THEN "deferred" ELSE "raised"
    /\ UNCHANGED <<jrule, jtemplate, jimm, jinf, joutf, jn, jrenders>>
    /\ UNCHANGED <<rules, buildVars, rebuildVars, builtinVars, matchVars, pathVars,
                   fileMapVars, pageVars>>

\* jinja_file(fs, inf, outf)
CallJinjaFile ==
    /\ jrule = "JinjaFile" /\ jpc = "ready"
    /\ AfterRuleCall(JinjaFile(jtemplate, jrc, jimm, jinf, joutf))

\* jinja_file.as_layout(fs, inf, outf)
CallJinjaLayoutFile ==
    /\ jrule = "JinjaLayoutFile" /\ jpc = "ready"
    /\ AfterRuleCall(JinjaLayoutFile(jtemplate, jrc, jimm, jinf, joutf))

\* The rule is handed the next file.
NextJinjaFile(t, inf, outf) ==
    /\ jpc \in {"deferred", "done"}
    /\ jn < MaxJinjaFiles
    /\ jn' = jn + 1
    /\ jtemplate' = t
    /\ jinf' = inf
    /\ joutf' = outf
    /\ jpc' = "ready"
    /\ UNCHANGED <<jrule, jimm, jstate, jlog, jerr, jrc, jqueue, jfiles,
                   jcalls, jrenders>>
    /\ UNCHANGED <<rules, buildVars, rebuildVars, builtinVars, matchVars, pathVars,
                   fileMapVars, pageVars>>

\* execution(state): the oldest deferred action is run.
RunJinjaExecution(state) ==
    /\ jpc \in {"deferred", "done"}
    /\ jqueue # << >>
    /\ LET c == Head(jqueue)
       IN  /\ jlog' = Append(jlog, WriteEvent(c.outf,
                         IF c.kind = "data" THEN DataFileOutput(c, state)
                         ELSE LayoutFileOutput(c, state)))
           /\ jrenders' = Append(jrenders,
                                 <<c.inf, c.outf, RenderContext(c, state)>>)
    /\ jqueue' = Tail(jqueue)
    /\ jpc' = "done"
    /\ UNCHANGED <<jrule, jtemplate, jimm, jinf, joutf, jstate, jerr, jrc, jn,
                   jfiles, jcalls>>
    /\ UNCHANGED <<rules, buildVars, rebuildVars, builtinVars, matchVars, pathVars,
                   fileMapVars, pageVars>>

NextJinja ==
    \/ CallJinjaFile
    \/ CallJinjaLayoutFile
    \/ \E t \in Templates, inf \in FileMapNames, outf \in FileMapNames :
           NextJinjaFile(t, inf, outf)
    \/ \E state \in UserStates : RunJinjaExecution(state)

SpecJinja == InitJinja /\ [][NextJinja]_vars

\* C20 as stated: JinjaFile called as an execution rule never fails on a
\* template that declares no layout, and what it writes for such a template
\* is the template rendered directly; a template that declares a layout is
\* written as the rendering of that layout.
C20_NoLayoutRendersDirectly ==
    (jrule = "JinjaFile" /\ jn = 1) =>
        /\ jtemplate.content_layout = "" => jerr = ""
        /\ (jpc = "done" /\ jtemplate.content_layout = "") =>
               /\ Len(jlog) = 2
               /\ jlog[2][1] = "write" /\ jlog[2][2] = joutf
               /\ jlog[2][3][2] = jtemplate
        /\ (jpc = "done" /\ jtemplate.content_layout \in LoadableTemplates) =>
               /\ Len(jlog) = 2
               /\ jlog[2][1] = "write" /\ jlog[2][2] = joutf
               /\ jlog[2][3][2] = LayoutTemplate(jtemplate.content_layout)

\* The rule's Context registers the provider of that name.
HasProvider(name) == \E k \in 1..Len(jimm) : jimm[k] = name

\* The provider calls that files call for: per file, every provider once,
\* in order, with the rule's render context, the file's names and its text.
RECURSIVE ExpectedCalls(_)
ExpectedCalls(fs) ==
    IF fs = << >> THEN << >>
    ELSE [k \in 1..Len(jimm) |->
              << jimm[k], BaseContext, fs[1][1], fs[1][2], Content(fs[1][1]) >>]
         \o ExpectedCalls(Tail(fs))

\* C23: for every file the rule processes, each immediate-context function
\* is called with (render context, the file's input name, output name,
\* source text); a render sees the values of its own file and of no other;
\* the rule's render_context and immediate_context never change.
C23_ImmediateContextPerFile ==
    /\ [](/\ jcalls = ExpectedCalls(jfiles)
          /\ jrc = BaseContext
          /\ \A k \in 1..Len(jrenders) :
                LET inf == jrenders[k][1]
                    d == jrenders[k][3]
                IN  /\ d.my_var = BaseContext.my_var
                    /\ "infile" \in DOMAIN d <=> HasProvider("my_ctx")
                    /\ "infile" \in DOMAIN d => d.infile = inf
                    /\ "draft" \in DOMAIN d <=>
                           (HasProvider("draft_ctx") /\ inf = DraftFile)
                    /\ "draft" \in DOMAIN d => d.draft = Content(inf))
    /\ [][jrc' = jrc /\ jimm' = jimm]_vars

\* Two files went through one rule with both providers; the render of
\* "x.t" has its draft value, the render of the other file has none.
C23_Witness ==
    /\ jimm = << "my_ctx", "draft_ctx" >>
    /\ Len(jfiles) = 2 /\ Len(jrenders) = 2
    /\ jrenders[1][1] = DraftFile /\ jrenders[2][1] # DraftFile
    /\ "draft" \in DOMAIN jrenders[1][3]
    /\ "draft" \notin DOMAIN jrenders[2][3]
    /\ jrenders[2][3].infile = jrenders[2][1]
    /\ jrc = BaseContext

---------------------------------------------------------------------------
(* Several build() calls on one BuildEnv of jssg/__init__.py.  The object  *)
(* keeps execution_sequence and its listeners between the calls; a caller  *)
(* that catches the error of a failed build() can call build() again.      *)

MaxBuilds == 2

InitRebuild ==
    /\ impl = "BuildEnv"
    /\ rules \in BuildRuleTables
    /\ files \in FileLists
    /\ listeners \in ListenerConfigs
    /\ pc = "collect"
    /\ fi = 1
    /\ dat = << >>
    /\ executions = << >>
    /\ collected = [j \in DOMAIN listeners |-> << >>]
    /\ exec_state = EmptyDict
    /\ xi = 1
    /\ err = ""
    /\ log = << >>
    /\ bno = 1
    /\ carried = << >>
    /\ BuiltinIdle
    /\ MatchIdle
    /\ PathIdle
    /\ FileMapIdle
    /\ PagesIdle
    /\ JinjaIdle

\* The next build(rules, files) on the same object, after the one before
\* returned or raised: the loops start over, self.execution_sequence is
\* whatever the call before left in it.
BuildAgain(fs) ==
    /\ impl = "BuildEnv" /\ pc \in {"done", "raised"}
    /\ bno < MaxBuilds
    /\ bno' = bno + 1
    /\ carried' = executions
    /\ files' = fs
    /\ pc' = "collect"
    /\ fi' = 1
    /\ xi' = 1
    /\ err' = ""
    /\ exec_state' = EmptyDict
    /\ UNCHANGED <<impl, rules, listeners, dat, executions, collected, log>>
    /\ UNCHANGED <<matchVars, pathVars, fileMapVars, pageVars, jinjaVars,
                   builtinVars>>

NextRebuild ==
    \/ TranslateSkip
    \/ \E outcome \in Outcomes : TranslateToExecution(outcome)
    \/ FlushExecution
    \/ \E result \in ExecutionResults : Execute(result)
    \/ FlushReturn
    \/ \E fs \in FileLists : BuildAgain(fs)

SpecRebuild == InitRebuild /\ [][NextRebuild]_vars

\* C22 as stated: the execution queue is empty whenever a build() call
\* begins, so no call runs a deferred action that an earlier call queued.
C22_QueueEmptyAtBuildStart ==
    /\ carried = << >>
    /\ (pc = "collect" /\ fi = 1) => executions = << >>

---------------------------------------------------------------------------
(* build() of jssg/build_env.py with the built-in content transforms as    *)
(* the rule: FileMapExecutionRule around a file map, JinjaLayoutFile and   *)
(* JinjaDataFile.  fslog records every call of the file system object.     *)

\* The file maps a rule table wraps: copy_file, and a text function.
CopyFile == [accepts |-> {"fs"}, raises |-> ""]
TextFn == [accepts |-> {"text"}, raises |-> ""]

BuiltinRules == {"copy_file", "text_fn", "JinjaLayoutFile", "JinjaDataFile"}

\* The template each input file holds: "x.t" names the layout "base",
\* "a/x.y" sets no content_layout, "r" names a layout that does not exist.
TemplateOf(inf) ==
    CASE inf = <<"x", ".", "t">> -> [content_layout |-> "base"]
      [] inf = <<"a", "/", "x", ".", "y">> -> [content_layout |-> ""]
      [] OTHER -> [content_layout |-> "absent"]

FileMapOf(b) == IF b = "copy_file" THEN CopyFile ELSE TextFn

\* A plausible slip: the layout rule renders and writes when it is called.
BuiltinCallRendersAtOnce(b, inf, outf) ==
    CASE b = "JinjaLayoutFile" ->
             LET r == JinjaLayoutFile(TemplateOf(inf), BaseContext, << >>, inf, outf)
             IN  [r EXCEPT !.log = @ \o << WriteEvent(outf,
                                  Render(r.execution.t, r.execution.ctx)) >>]
      [] b = "JinjaDataFile" ->
             JinjaDataFile(TemplateOf(inf), BaseContext, << >>, inf, outf)
      [] OTHER ->
             [log |-> << >>, exc |-> "",
              state |-> <<"filemap", b, <<inf, outf>>>>,
              execution |-> Closure("filemap", b, inf, outf, None, None)]

\* rule(fs, f, outf) of the wrapped rule: what the call does to the file
\* system, whether it raises, the state and the deferred action it returns.
\* FileMapExecutionRule.__call__ only builds the lambda and the state dict.
BuiltinCall(b, inf, outf) ==
    CASE b = "JinjaLayoutFile" ->
             JinjaLayoutFile(TemplateOf(inf), BaseContext, << >>, inf, outf)
      [] b = "JinjaDataFile" ->
             JinjaDataFile(TemplateOf(inf), BaseContext, << >>, inf, outf)
      [] OTHER ->
             [log |-> << >>, exc |-> "",
              state |-> <<"filemap", b, <<inf, outf>>>>,
              execution |-> Closure("filemap", b, inf, outf, None, None)]

\* The outcome of the rule call as build() sees it.
BuiltinOutcome(r) ==
    IF r.exc # "" THEN "raise" ELSE IF r.state = None THEN "none" ELSE "data"

\* ex(exec_state) of the deferred action c: the file map dispatch for a
\* wrapped file map, fs.write of the rendering for the Jinja rules.
BuiltinExecution(c, state) ==
    CASE c.kind = "filemap" ->
             ExecuteCallableAsFilemap(FileMapOf(c.t), c.inf, c.outf)
      [] c.kind = "layout" ->
             [log |-> << WriteEvent(c.outf, LayoutFileOutput(c, state)) >>,
              exc |-> ""]
      [] c.kind = "data" ->
             [log |-> << WriteEvent(c.outf, DataFileOutput(c, state)) >>,
              exc |-> ""]

\* The calls of the file system among the entries of a log.
FsEvents(l) == SelectSeq(l, LAMBDA e : e[1] \in {"read", "write", "copy"})

InitBuiltin ==
    /\ impl = "build_env"
    /\ rules \in BuildRuleTables
    /\ files \in FileLists
    /\ listeners \in ListenerConfigs
    /\ pc = "collect"
    /\ fi = 1
    /\ dat = << >>
    /\ executions = << >>
    /\ collected = [j \in DOMAIN listeners |-> << >>]
    /\ exec_state = EmptyDict
    /\ xi = 1
    /\ err = ""
    /\ log = << >>
    /\ builtin \in BuiltinRules
    /\ fslog = << >>
    /\ MatchIdle
    /\ PathIdle
    /\ FileMapIdle
    /\ PagesIdle
    /\ JinjaIdle
    /\ RebuildIdle

\* _execute_rule on a matched file, the rule being the built-in one; the
\* deferred action is kept with the file's index.
EvaluateBuiltin ==
    /\ impl = "build_env" /\ pc = "collect" /\ fi <= Len(files)
    /\ CurrentRule # None
    /\ LET f == files[fi]
           inf == InName(impl, f)
           outf == OutName(impl, CurrentRule[1], f)
           r == BuiltinCall(builtin, inf, outf)
           outcome == BuiltinOutcome(r)
       IN /\ log' = Append(log, Ev("rule", fi, CurrentRule[2], <<inf, outf, outcome>>))
          /\ fslog' = fslog \o FsEvents(r.log)
          /\ IF outcome = "raise"
             THEN /\ pc' = "raised" /\ err' = "TransformError"
                  /\ UNCHANGED <<fi, dat, executions>>
             ELSE /\ dat' = Append(dat, Input(fi, inf, outf, DataOf(outcome, inf)))
                  /\ executions' = Append(executions, [i |-> fi, ex |-> r.execution])
                  /\ fi' = fi + 1
                  /\ UNCHANGED <<pc, err>>
    /\ UNCHANGED <<impl, rules, files, listeners, collected, exec_state, xi>>
    /\ UNCHANGED <<builtin, matchVars, pathVars, fileMapVars, pageVars, jinjaVars,
                   rebuildVars>>

\* "for ex in executions: ex(exec_state)", one built-in execution.
ExecuteBuiltin ==
    /\ impl = "build_env" /\ pc = "execute" /\ xi <= Len(executions)
    /\ LET e == NextExecution(executions, xi)
           r == BuiltinExecution(e.ex, exec_state)
           result == IF r.exc = "" THEN "ok" ELSE "raise"
       IN /\ log' = Append(log, Ev("execution", e.i, "", <<exec_state, result>>))
          /\ fslog' = fslog \o FsEvents(r.log)
          /\ IF result = "raise"
             THEN pc' = "raised" /\ err' = "ExecutionError" /\ xi' = xi
             ELSE pc' = pc /\ err' = err /\ xi' = xi + 1
    /\ UNCHANGED <<impl, rules, files, listeners, fi, dat, executions, collected,
                   exec_state>>
    /\ UNCHANGED <<builtin, matchVars, pathVars, fileMapVars, pageVars, jinjaVars,
                   rebuildVars>>

NextBuiltin ==
    \/ EvaluateSkip
    \/ EvaluateBuiltin
    \/ EvaluateRulesReturn
    \/ NotifyListeners
    \/ ExecuteBuiltin
    \/ BuildReturn

SpecBuiltin == InitBuiltin /\ [][NextBuiltin]_vars

\* The files of the list that have a rule, and those whose rule was called.
Matched == { i \in DOMAIN files : FirstMatchingRule(rules, files[i], None) # None }
Invoked == { log[k].i : k \in Calls("rule") }
Written == { k \in DOMAIN fslog : fslog[k][1] \in {"write", "copy"} }

C24_WitnessRaised ==
    /\ err = "TransformError" /\ Cardinality(Invoked) = 2 /\ fslog # << >>

===========================================================================
